---- MODULE Spec2Model ----
(***************************************************************************)
(* Model of src/component.js: the <countdown-timer> custom element         *)
(* (class CountdownElement).  One element instance, the host's timer       *)
(* queue (setTimeout / clearTimeout), the wall clock (+new Date()), and     *)
(* the pure formatter timeMsDiffToString.                                   *)
(*                                                                          *)
(* Representation notes.                                                    *)
(*  - A JavaScript value is a record [k, v, s]: k is the kind ("undefined", *)
(*    "null", "num", "nan", "str"), v the number of a "num", s the text of  *)
(*    a "str".                                                              *)
(*  - Object references that the code tests for truthiness are naturals     *)
(*    with 0 for null: _countdownDescElement is the index of the bound div  *)
(*    in children, _tickTimer a timer id (host timer ids are >= 1).         *)
(*  - TLC integers are 32 bits wide and one year is 31 536 000 000 ms, so   *)
(*    the argument of timeMsDiffToString is carried as [s, r], meaning      *)
(*    s*1000 + r ms with 0 <= r < 1000.  For a positive divisor D that is   *)
(*    a multiple of 1000, floor(ms / D) = floor(s / (D/1000)), and          *)
(*    subtracting k*D leaves r alone, so the code's arithmetic is carried   *)
(*    out exactly on s until the last (seconds) step.                       *)
(***************************************************************************)
EXTENDS Integers, Sequences, FiniteSets, TLC

VARIABLES
    now,                    \* wall clock, ms since the epoch (+new Date())
    _targetTimestamp,       \* this._targetTimestamp (a JavaScript value)
    _countdownDescElement,  \* this._countdownDescElement (0 = null)
    _tickTimer,             \* this._tickTimer (0 = null)
    children,               \* innerText of the divs appended to the element
    timers,                 \* the host's pending setTimeout callbacks
    nextHandle,             \* the id the next setTimeout call returns
    isConnected,            \* the host's view: is the element in the DOM
    lastOp,                 \* history: the operation that ran last
    wrote,                  \* history: did the last operation assign innerText
    fmtArgs,                \* history: arguments of timeMsDiffToString calls
                            \*          made by the last operation
    lastArg,                \* history: the value the last operation handed
                            \*          to the targetTimestamp setter
    scheduledIn,            \* history: scheduledIn[h] is the div that was bound
                            \*          when the callback with handle h was
                            \*          scheduled (one div per attachment)
    shown,                  \* history: the timeDiff of the tick that last wrote
                            \*          the bound div (NoArg when none is bound)
    ms,                     \* formatter run: the argument
    parts,                  \* formatter run: the computed components
    formatted,              \* formatter run: the returned string
    fpc                     \* formatter run: "idle", "call" or "done"

schedVars == <<now, _targetTimestamp, _countdownDescElement, _tickTimer,
               children, timers, nextHandle, isConnected, lastOp, wrote,
               fmtArgs, lastArg, scheduledIn, shown>>
fmtVars == <<ms, parts, formatted, fpc>>
vars == <<now, _targetTimestamp, _countdownDescElement, _tickTimer,
          children, timers, nextHandle, isConnected, lastOp, wrote,
          fmtArgs, lastArg, scheduledIn, shown, ms, parts, formatted, fpc>>

----------------------------------------------------------------------------
(* Bounds *)

\* the clock stops advancing here
MaxTime == 1000
\* setTimeout is called at most this many times in one behaviour
MaxHandles == 3
\* connectedCallback runs at most this many times in one behaviour
MaxAttach == 2
\* formatter inputs span 0..MaxYears whole years
MaxYears == 2

(* Program constants *)

\* the 1000 of (start + 1000)/1000 and of the unit divisors
MsPerSecond == 1000

----------------------------------------------------------------------------
(* JavaScript values *)

Undefined == [k |-> "undefined", v |-> 0, s |-> ""]
NullV == [k |-> "null", v |-> 0, s |-> ""]
NaN == [k |-> "nan", v |-> 0, s |-> ""]
Num(n) == [k |-> "num", v |-> n, s |-> ""]
Str(t) == [k |-> "str", v |-> 0, s |-> t]
\* lastArg when the last operation did not run the setter
NoArg == [k |-> "none", v |-> 0, s |-> ""]

Max(a, b) == IF a >= b THEN a ELSE b

\* !x
Falsy(x) ==
    \/ x.k \in {"undefined", "null", "nan"}
    \/ x.k = "num" /\ x.v = 0
    \/ x.k = "str" /\ x.s = ""

\* the value of one decimal digit character, -1 for any other character
DigitVal(c) ==
    IF \E d \in 0..9 : ToString(d) = c
    THEN CHOOSE d \in 0..9 : ToString(d) = c
    ELSE 0 - 1

\* +new Date(str) for the strings the model feeds in: an ISO-8601 UTC
\* instant within the first minute of the epoch parses to its millisecond
\* count, a string that is no date parses to NaN.
DateParse(str) ==
    IF /\ Len(str) = 24
       /\ SubSeq(str, 1, 17) = "1970-01-01T00:00:"
       /\ SubSeq(str, 20, 20) = "."
       /\ SubSeq(str, 24, 24) = "Z"
       /\ \A i \in {18, 19, 21, 22, 23} : DigitVal(SubSeq(str, i, i)) >= 0
    THEN Num(  DigitVal(SubSeq(str, 18, 18)) * 10000
             + DigitVal(SubSeq(str, 19, 19)) * 1000
             + DigitVal(SubSeq(str, 21, 21)) * 100
             + DigitVal(SubSeq(str, 22, 22)) * 10
             + DigitVal(SubSeq(str, 23, 23)))
    ELSE NaN

\* variant of Minus: the operands are swapped (start - target)
MinusSwapped(x, start) ==
    CASE x.k = "num" -> Num(start - x.v)
      [] x.k = "null" -> Num(start)
      [] OTHER -> NaN

\* ToNumber(x) - start, for the values _targetTimestamp can hold
Minus(x, start) ==
    CASE x.k = "num" -> Num(x.v - start)
      [] x.k = "null" -> Num(0 - start)
      [] OTHER -> NaN

----------------------------------------------------------------------------
(* timeMsDiffToString *)

\* a duration of sec whole seconds and r further milliseconds
Ms(sec, r) == [s |-> sec, r |-> r]
\* a duration given in milliseconds
MsOf(n) == [s |-> n \div MsPerSecond, r |-> n % MsPerSecond]

\* variant of MonthSeconds: a 30-day month
MonthSeconds30 == 60 * 60 * 24 * 30

\* the divisors of lines 129-145, in seconds
YearSeconds == 60 * 60 * 24 * 365
MonthSeconds == 60 * 60 * 24 * 28
DaySeconds == 60 * 60 * 24
HourSeconds == 60 * 60
MinuteSeconds == 60

\* variant of timeBreakdown: the months are not subtracted from elapsed
\* before the days are computed
timeBreakdownKeepsMonths(d) ==
    LET years == d.s \div YearSeconds
        e1 == d.s - years * YearSeconds
        months == e1 \div MonthSeconds
        days == e1 \div DaySeconds
        e3 == e1 - days * DaySeconds
        hours == e3 \div HourSeconds
        e4 == e3 - hours * HourSeconds
        minutes == e4 \div MinuteSeconds
        e5 == e4 - minutes * MinuteSeconds
        elapsed == e5 * MsPerSecond + d.r
        seconds == elapsed \div MsPerSecond
    IN  [years |-> years, months |-> months, days |-> days,
         hours |-> hours, minutes |-> minutes, seconds |-> seconds,
         elapsed |-> elapsed - seconds * MsPerSecond]

\* the six components and what is left of elapsed after the last step
timeBreakdown(d) ==
    LET years == d.s \div YearSeconds
        e1 == d.s - years * YearSeconds
        months == e1 \div MonthSeconds
        e2 == e1 - months * MonthSeconds
        days == e2 \div DaySeconds
        e3 == e2 - days * DaySeconds
        hours == e3 \div HourSeconds
        e4 == e3 - hours * HourSeconds
        minutes == e4 \div MinuteSeconds
        e5 == e4 - minutes * MinuteSeconds
        elapsed == e5 * MsPerSecond + d.r
        seconds == elapsed \div MsPerSecond
    IN  [years |-> years, months |-> months, days |-> days,
         hours |-> hours, minutes |-> minutes, seconds |-> seconds,
         elapsed |-> elapsed - seconds * MsPerSecond]

\* variant of formatTime: the plural suffix is added when time > 1
formatTimePluralAboveOne(time, desc, showZero) ==
    IF time > 0 \/ showZero
    THEN ToString(time) \o " " \o desc
             \o (IF time > 1 THEN "s" ELSE "") \o ", "
    ELSE ""

formatTime(time, desc, showZero) ==
    IF time > 0 \/ showZero
    THEN ToString(time) \o " " \o desc
             \o (IF time # 1 THEN "s" ELSE "") \o ", "
    ELSE ""

\* time.substring(0, time.length - 2)
StripSeparator(time) == SubSeq(time, 1, Len(time) - 2)

timeMsDiffToString(d) ==
    LET b == timeBreakdown(d)
        time == formatTime(b.years, "year", FALSE)
                \o formatTime(b.months, "month", FALSE)
                \o formatTime(b.days, "day", FALSE)
                \o formatTime(b.hours, "hour", FALSE)
                \o formatTime(b.minutes, "minute", FALSE)
                \o formatTime(b.seconds, "second", TRUE)
    IN  StripSeparator(time)

\* timeMsDiffToString(NaN): every Math.floor is NaN, NaN > 0 is false, so
\* only the showZero segment is emitted, and NaN !== 1 adds the "s".
timeMsDiffToStringNaN == StripSeparator("NaN second" \o "s" \o ", ")

----------------------------------------------------------------------------
(* The host: clock, timer queue, inputs *)

\* clock readings at construction
StartTimes == {0, 499}
\* how far the clock moves between two operations
ClockSteps == {500}
\* values assigned to el.targetTimestamp by script
PropertyInputs == {Undefined, Num(0), Num(1000), Num(1700)}
\* newValue of attributeChangedCallback: null (removed) or a string
AttributeInputs == {NullV, Str(""), Str("1970-01-01T00:00:01.500Z"),
                    Str("soon")}

\* the time a pending callback becomes runnable: setTimeout clamps a
\* negative delay to 0
Due(t) == t.start + Max(t.delay, 0)

\* setTimeout(cb, delay) called at time start; returns id
setTimeout(ts, id, start, delay) ==
    ts \cup {[id |-> id, start |-> start, delay |-> delay]}

\* clearTimeout(h)
clearTimeout(ts, h) == {t \in ts : t.id # h}

----------------------------------------------------------------------------
(* class CountdownElement *)

\* variant of NormalizeTimestamp: only null is replaced by 0
\* (timestamp === null instead of !timestamp)
NormalizeTimestampNullOnly(timestamp) ==
    IF timestamp.k = "null" THEN Num(0)
    ELSE IF timestamp.k = "str" THEN DateParse(timestamp.s)
    ELSE timestamp

\* lines 31-35: the value the setter stores
NormalizeTimestamp(timestamp) ==
    IF Falsy(timestamp) THEN Num(0)
    ELSE IF timestamp.k = "str" THEN DateParse(timestamp.s)
    ELSE timestamp

\* lines 116-117: the delay handed to setTimeout
TickDelay(start) == ((start + MsPerSecond) \div MsPerSecond) - start

\* variant of IsElapsed: the comparison is strict (timeDiff < 0)
IsElapsedStrict(timeDiff) == timeDiff.k = "num" /\ timeDiff.v < 0

\* line 107
IsElapsed(timeDiff) == timeDiff.k = "num" /\ timeDiff.v <= 0

\* lines 105-111
DescStr(timeDiff) ==
    IF IsElapsed(timeDiff) THEN "Already elapsed!"
    ELSE IF timeDiff.k = "nan" THEN timeMsDiffToStringNaN
    ELSE timeMsDiffToString(MsOf(timeDiff.v))

\* line 100: is a render sink bound
SinkBound(sink) == sink # 0

\* nextTick(), entered with this._targetTimestamp = target,
\* this._countdownDescElement = sink, the element's divs showing ch and the
\* host holding the pending callbacks ts
nextTick(target, sink, ch, ts) ==
    LET start == now
        timeDiff == Minus(target, start)
    IN  IF ~SinkBound(sink)
        THEN /\ children' = ch
             /\ timers' = ts
             /\ nextHandle' = nextHandle
             /\ _tickTimer' = _tickTimer
             /\ wrote' = FALSE
             /\ fmtArgs' = <<>>
             /\ scheduledIn' = scheduledIn
             /\ shown' = shown
        ELSE /\ children' = [ch EXCEPT ![sink] = DescStr(timeDiff)]
             /\ timers' = setTimeout(ts, nextHandle, start, TickDelay(start))
             /\ nextHandle' = nextHandle + 1
             /\ _tickTimer' = _tickTimer
             /\ wrote' = TRUE
             /\ fmtArgs' = IF IsElapsed(timeDiff) THEN <<>> ELSE <<timeDiff>>
             /\ scheduledIn' = Append(scheduledIn, sink)
             /\ shown' = timeDiff

\* lines 37-39 of the setter: the callbacks left pending
CancelPending(ts, handle) ==
    IF handle # 0 THEN clearTimeout(ts, handle) ELSE ts

\* variant of setTargetTimestamp: the tick is deferred with setTimeout(.., 0)
\* instead of being run before the setter returns
setTargetTimestampDeferred(timestamp, sink, ch) ==
    /\ lastArg' = timestamp
    /\ _targetTimestamp' = NormalizeTimestamp(timestamp)
    /\ children' = ch
    /\ timers' = setTimeout(CancelPending(timers, _tickTimer), nextHandle,
                            now, 0)
    /\ nextHandle' = nextHandle + 1
    /\ _tickTimer' = _tickTimer
    /\ wrote' = FALSE
    /\ fmtArgs' = <<>>
    /\ scheduledIn' = Append(scheduledIn, sink)
    /\ shown' = shown

\* set targetTimestamp(timestamp), entered with the sink and divs given
setTargetTimestamp(timestamp, sink, ch) ==
    /\ lastArg' = timestamp
    /\ _targetTimestamp' = NormalizeTimestamp(timestamp)
    /\ nextTick(NormalizeTimestamp(timestamp), sink, ch,
                CancelPending(timers, _tickTimer))

\* the model stops calling setTimeout after MaxHandles calls
MaySchedule(sink) == sink = 0 \/ nextHandle <= MaxHandles

\* el.targetTimestamp = v
SetProperty(v) ==
    /\ MaySchedule(_countdownDescElement)
    /\ setTargetTimestamp(v, _countdownDescElement, children)
    /\ lastOp' = "set"
    /\ UNCHANGED <<now, _countdownDescElement, isConnected>>
    /\ UNCHANGED fmtVars

\* attributeChangedCallback("target-timestamp", oldValue, newValue)
attributeChangedCallback(newValue) ==
    /\ MaySchedule(_countdownDescElement)
    /\ setTargetTimestamp(newValue, _countdownDescElement, children)
    /\ lastOp' = "attr"
    /\ UNCHANGED <<now, _countdownDescElement, isConnected>>
    /\ UNCHANGED fmtVars

\* connectedCallback(): the host calls it when the element enters the DOM
connectedCallback ==
    /\ ~isConnected
    /\ Len(children) < MaxAttach
    /\ nextHandle <= MaxHandles
    /\ isConnected' = TRUE
    /\ _countdownDescElement' = Len(children) + 1
    /\ setTargetTimestamp(_targetTimestamp, Len(children) + 1,
                          Append(children, ""))
    /\ lastOp' = "connected"
    /\ UNCHANGED now
    /\ UNCHANGED fmtVars

\* variant of disconnectedCallback: the render-sink reference is not cleared
disconnectedCallbackKeepsSink ==
    /\ isConnected
    /\ isConnected' = FALSE
    /\ timers' = CancelPending(timers, _tickTimer)
    /\ _targetTimestamp' = NullV
    /\ _tickTimer' = 0
    /\ lastOp' = "disconnected"
    /\ wrote' = FALSE
    /\ fmtArgs' = <<>>
    /\ lastArg' = NoArg
    /\ shown' = NoArg
    /\ UNCHANGED <<now, children, nextHandle, _countdownDescElement,
                   scheduledIn>>
    /\ UNCHANGED fmtVars

\* variant of disconnectedCallback: the target is not reset
disconnectedCallbackKeepsTarget ==
    /\ isConnected
    /\ isConnected' = FALSE
    /\ timers' = CancelPending(timers, _tickTimer)
    /\ _countdownDescElement' = 0
    /\ _tickTimer' = 0
    /\ lastOp' = "disconnected"
    /\ wrote' = FALSE
    /\ fmtArgs' = <<>>
    /\ lastArg' = NoArg
    /\ shown' = NoArg
    /\ UNCHANGED <<now, children, nextHandle, scheduledIn, _targetTimestamp>>
    /\ UNCHANGED fmtVars

\* disconnectedCallback(): the host calls it when the element leaves the DOM
disconnectedCallback ==
    /\ isConnected
    /\ isConnected' = FALSE
    /\ timers' = CancelPending(timers, _tickTimer)
    /\ _targetTimestamp' = NullV
    /\ _countdownDescElement' = 0
    /\ _tickTimer' = 0
    /\ lastOp' = "disconnected"
    /\ wrote' = FALSE
    /\ fmtArgs' = <<>>
    /\ lastArg' = NoArg
    /\ shown' = NoArg
    /\ UNCHANGED <<now, children, nextHandle, scheduledIn>>
    /\ UNCHANGED fmtVars

\* the host runs the pending callback t: () => this.nextTick()
TimerFires(t) ==
    /\ t \in timers
    /\ Due(t) <= now
    /\ MaySchedule(_countdownDescElement)
    /\ nextTick(_targetTimestamp, _countdownDescElement, children,
                timers \ {t})
    /\ lastOp' = "tick"
    /\ lastArg' = NoArg
    /\ UNCHANGED <<now, _targetTimestamp, _countdownDescElement, isConnected>>
    /\ UNCHANGED fmtVars

\* time passes
Advance(d) ==
    /\ now + d <= MaxTime
    /\ now' = now + d
    /\ lastOp' = "advance"
    /\ wrote' = FALSE
    /\ fmtArgs' = <<>>
    /\ lastArg' = NoArg
    /\ UNCHANGED <<_targetTimestamp, _countdownDescElement, _tickTimer,
                   children, timers, nextHandle, isConnected, scheduledIn,
                   shown>>
    /\ UNCHANGED fmtVars

NoParts == [years |-> 0, months |-> 0, days |-> 0, hours |-> 0,
            minutes |-> 0, seconds |-> 0, elapsed |-> 0]

\* the element after its constructor: _targetTimestamp is not assigned
SchedInit ==
    /\ now \in StartTimes
    /\ _targetTimestamp = Undefined
    /\ _countdownDescElement = 0
    /\ _tickTimer = 0
    /\ children = <<>>
    /\ timers = {}
    /\ nextHandle = 1
    /\ isConnected = FALSE
    /\ lastOp = "constructor"
    /\ wrote = FALSE
    /\ fmtArgs = <<>>
    /\ lastArg = NoArg
    /\ scheduledIn = <<>>
    /\ shown = NoArg

Init ==
    /\ SchedInit
    /\ ms = Ms(0, 0)
    /\ parts = NoParts
    /\ formatted = ""
    /\ fpc = "idle"

Next ==
    \/ \E v \in PropertyInputs : SetProperty(v)
    \/ \E v \in AttributeInputs : attributeChangedCallback(v)
    \/ connectedCallback
    \/ disconnectedCallback
    \/ \E t \in timers : TimerFires(t)
    \/ \E d \in ClockSteps : Advance(d)

Spec == Init /\ [][Next]_vars

----------------------------------------------------------------------------
(* timeMsDiffToString run on its own over a range of durations *)

\* the durations fed to the formatter: every mix of a few values per unit,
\* among them carries into the next unit (13 months + 27 days > 1 year)
DurationInputs ==
    { Ms(  y * (60 * 60 * 24 * 365) + mo * (60 * 60 * 24 * 28)
         + d * (60 * 60 * 24) + h * (60 * 60) + mi * 60 + sec, r) :
        y \in 0..MaxYears, mo \in {0, 1, 13}, d \in {0, 1, 2, 27},
        h \in {0, 1, 23}, mi \in {0, 1, 59}, sec \in {0, 1, 3, 59},
        r \in {0, 999} }

FormatInit ==
    /\ SchedInit
    /\ ms \in DurationInputs
    /\ parts = NoParts
    /\ formatted = ""
    /\ fpc = "call"

\* one call of timeMsDiffToString(ms)
Format ==
    /\ fpc = "call"
    /\ parts' = timeBreakdown(ms)
    /\ formatted' = timeMsDiffToString(ms)
    /\ fpc' = "done"
    /\ UNCHANGED ms
    /\ UNCHANGED schedVars

FormatNext == Format

FormatSpec == FormatInit /\ [][FormatNext]_vars

----------------------------------------------------------------------------
(* Properties of the element (specification Spec) *)

\* the text of the div the element renders into (a sink must be bound)
BoundText == children[_countdownDescElement]
\* the last operation ran the targetTimestamp setter
RanSetter == lastOp \in {"set", "attr", "connected"}
\* the element was attached at least once and is detached now
Deactivated == ~isConnected /\ Len(children) > 0

\* C1: in every reachable state at most one tick callback is scheduled and
\* not yet fired.
C1_AtMostOnePendingTick == Cardinality(timers) <= 1

\* C2: after an assignment to targetTimestamp on an attached element
\* (property or attribute) exactly one tick is pending, however many
\* assignments preceded it.
C2_AssignmentLeavesOnePendingTick ==
    (lastOp \in {"set", "attr"} /\ _countdownDescElement # 0)
        => Cardinality(timers) = 1

\* C3: when disconnectedCallback has returned, no tick callback is pending
\* and the render-sink reference and the tick-handle field are cleared.
C3_DisconnectedLeavesNothingPending ==
    lastOp = "disconnected"
        => (timers = {} /\ _countdownDescElement = 0 /\ _tickTimer = 0)

\* C4: while the element stays detached after a disconnectedCallback, no
\* step writes a displayed text or schedules a tick; this covers the firing
\* of a callback that was scheduled before the detach.
C4_NoRenderWhileDeactivated ==
    [][ (Deactivated /\ Deactivated')
            => /\ children' = children
               /\ wrote' = FALSE
               /\ timers' \subseteq timers
               /\ nextHandle' = nextHandle ]_vars

\* C4 witness: a callback scheduled before the detach has fired on the
\* detached element, and callbacks of that lifecycle are still pending.
C4_Witness ==
    /\ Deactivated
    /\ lastOp = "tick"
    /\ wrote = FALSE
    /\ timers # {}

\* C5: every scheduled tick was given a delay d with 0 < d <= 1000 such
\* that the capture time plus d is a whole-second boundary.
C5_DelayReachesNextSecondBoundary ==
    \A t \in timers :
        /\ 0 < t.delay
        /\ t.delay <= 1000
        /\ (t.start + t.delay) % 1000 = 0

\* C6: a tick that rendered with a numeric target t shows "Already elapsed!"
\* when t <= now, without calling the formatter, and the formatter's output
\* for t - now when t > now; the formatter is never handed a duration <= 0.
C6_TickRendersElapsedOrRemaining ==
    wrote =>
        /\ _countdownDescElement # 0
        /\ (_targetTimestamp.k = "num" /\ _targetTimestamp.v <= now)
               => (BoundText = "Already elapsed!" /\ fmtArgs = <<>>)
        /\ (_targetTimestamp.k = "num" /\ _targetTimestamp.v > now)
               => /\ BoundText
                        = timeMsDiffToString(MsOf(_targetTimestamp.v - now))
                  /\ fmtArgs = <<Num(_targetTimestamp.v - now)>>
        /\ \A i \in 1..Len(fmtArgs) :
               fmtArgs[i].k = "num" => fmtArgs[i].v > 0

\* C6 witness: a tick rendered at the very instant of the target (t = now).
C6_Witness ==
    /\ wrote
    /\ now > 0
    /\ _targetTimestamp = Num(now)
    /\ BoundText = "Already elapsed!"

\* the text a tick shows for a stored target at a clock reading
C9_TextForTargetAt(target, time) ==
    IF target.k = "num" /\ target.v <= time THEN "Already elapsed!"
    ELSE IF target.k = "num" THEN timeMsDiffToString(MsOf(target.v - time))
    ELSE "NaN seconds"

\* C9: when the setter has run with a render sink bound (an assignment, an
\* attribute change, or connectedCallback re-applying the target), the bound
\* div already shows the text for the stored target at the current time.
C9_SetterRendersSynchronously ==
    (RanSetter /\ _countdownDescElement # 0)
        => /\ wrote
           /\ BoundText = C9_TextForTargetAt(_targetTimestamp, now)

\* C9 witness: an assignment of a future target to an attached element whose
\* text shows the remaining time in the state right after the assignment.
C9_Witness ==
    /\ lastOp = "set"
    /\ _countdownDescElement # 0
    /\ lastArg = Num(1700)
    /\ now = 500
    /\ BoundText = "1 second"

C11_TickTimerIdentifiesPendingTick ==
    /\ (_tickTimer # 0) <=> (timers # {})
    /\ \A t \in timers : t.id = _tickTimer

\* C12: right after a targetTimestamp assignment or attribute change on an
\* element with no render sink bound, the target is stored, nothing was
\* written, and no tick is pending.
C12_UnboundAssignmentLeavesNoPendingTick ==
    (lastOp \in {"set", "attr"} /\ _countdownDescElement = 0)
        => /\ _targetTimestamp = NormalizeTimestamp(lastArg)
           /\ wrote = FALSE
           /\ timers = {}

\* C13: between two operations the element has a pending tick if and only
\* if it is attached.
C13_PendingTickIffAttached == (timers # {}) <=> isConnected

\* C14: when a callback fires on an attached element that was scheduled
\* while an earlier div was bound (before a detach and re-attach), it
\* neither writes a text nor schedules a tick, and the element is left with
\* exactly one pending tick.
C14_NoTickAcrossLifecycles ==
    [][ \A t \in timers :
            ( /\ lastOp' = "tick"
              /\ t \notin timers'
              /\ isConnected
              /\ scheduledIn[t.id] # _countdownDescElement )
                => /\ wrote' = FALSE
                   /\ timers' \subseteq timers
                   /\ Cardinality(timers') = 1 ]_vars

\* C15: disconnectedCallback leaves the target unset (null); while the
\* element is detached and no assignment or attribute change runs, the
\* target stays unset, and the connectedCallback that re-attaches it stores
\* the target 0 and shows "Already elapsed!".
C15_DetachResetsTarget ==
    [][ /\ lastOp' = "disconnected" => _targetTimestamp' = NullV
        /\ ( /\ Deactivated
             /\ _targetTimestamp = NullV
             /\ lastOp' \notin {"set", "attr"} )
               => IF isConnected'
                  THEN /\ lastOp' = "connected"
                       /\ _targetTimestamp' = Num(0)
                       /\ children'[_countdownDescElement']
                              = "Already elapsed!"
                  ELSE _targetTimestamp' = NullV ]_vars

\* C15 witness: an element re-attached with no assignment since the detach
\* shows "Already elapsed!" in its new div, while the div of its first
\* attachment still shows the time that remained to the target it had.
C15_Witness ==
    /\ lastOp = "connected"
    /\ lastArg = NullV
    /\ Len(children) = 2
    /\ _targetTimestamp = Num(0)
    /\ children[2] = "Already elapsed!"
    /\ children[1] = "1 second"

\* a step changes the text of an existing div only by a nextTick write into
\* the bound div
C17_SingleWriter ==
    \A i \in 1..Len(children) :
        children'[i] # children[i]
            => (wrote' /\ i = _countdownDescElement')

\* the text a step wrote is the elapsed literal
C17_WroteElapsed ==
    /\ fmtArgs' = <<>>
    /\ children'[_countdownDescElement'] = "Already elapsed!"

\* the text a step wrote is the formatter's output for a duration > 0
C17_WrotePositiveDuration ==
    /\ Len(fmtArgs') = 1
    /\ fmtArgs'[1].k = "num"
    /\ fmtArgs'[1].v > 0
    /\ children'[_countdownDescElement']
           = timeMsDiffToString(MsOf(fmtArgs'[1].v))

\* the text a step wrote is the formatter's output for NaN, the target
\* being the NaN of a string that is no date
C17_WroteNaN ==
    /\ _targetTimestamp' = NaN
    /\ fmtArgs' = <<NaN>>
    /\ children'[_countdownDescElement'] = "NaN seconds"

\* a step writes the bound div again with the target unchanged
C17_RewritesSameTarget ==
    /\ wrote'
    /\ _countdownDescElement # 0
    /\ _countdownDescElement' = _countdownDescElement
    /\ _targetTimestamp' = _targetTimestamp

\* with the target unchanged a rendered duration is not larger than the one
\* rendered before
C17_DurationNeverIncreases ==
    (C17_RewritesSameTarget /\ shown.k = "num" /\ shown'.k = "num"
         /\ shown'.v > 0)
        => shown'.v <= shown.v

\* with the target unchanged "Already elapsed!" is followed by itself
C17_ElapsedStays ==
    (C17_RewritesSameTarget /\ BoundText = "Already elapsed!")
        => children'[_countdownDescElement'] = "Already elapsed!"

\* C17 as stated: only nextTick writes a div's text; every text written is
\* "Already elapsed!" or the formatter's output for a duration > 0; with the
\* target unchanged the rendered duration never increases and "Already
\* elapsed!" stays.
C17_WritesElapsedOrPositiveDuration ==
    [][ /\ C17_SingleWriter
        /\ wrote' => (C17_WroteElapsed \/ C17_WrotePositiveDuration)
        /\ C17_DurationNeverIncreases
        /\ C17_ElapsedStays ]_vars

\* C17 amended: as stated, except that a text written while the target is
\* the NaN of an unparseable date string is "NaN seconds".
C17_WritesElapsedDurationOrNaN ==
    [][ /\ C17_SingleWriter
        /\ wrote' => (C17_WroteElapsed \/ C17_WrotePositiveDuration
                          \/ C17_WroteNaN)
        /\ C17_DurationNeverIncreases
        /\ C17_ElapsedStays ]_vars

\* C17 witness: a fired tick has rendered the 700 ms that remain to an
\* unchanged target after the clock advanced.
C17_Witness ==
    /\ lastOp = "tick"
    /\ wrote
    /\ now = 1000
    /\ _targetTimestamp = Num(1700)
    /\ shown = Num(700)
    /\ BoundText = "0 seconds"

----------------------------------------------------------------------------
(* Properties of timeMsDiffToString (specification FormatSpec) *)

\* the unit values of a duration, each as the remainder of the next larger
\* unit divided by the unit (365-day year, 28-day month): years, months,
\* days, hours, minutes, seconds
C7_Values(d) ==
    << d.s \div 31536000,
       (d.s % 31536000) \div 2419200,
       ((d.s % 31536000) % 2419200) \div 86400,
       (d.s % 86400) \div 3600,
       (d.s % 3600) \div 60,
       d.s % 60 >>

C7_Units == <<"year", "month", "day", "hour", "minute", "second">>

\* "<value> <unit>", with the suffix "s" exactly when value is not 1
C7_Segment(value, unit) ==
    ToString(value) \o " " \o unit \o (IF value = 1 THEN "" ELSE "s")

\* the segments of units i..6: one per unit with a value > 0, and seconds
RECURSIVE C7_Segments(_, _)
C7_Segments(vals, i) ==
    IF i > 6 THEN <<>>
    ELSE (IF vals[i] > 0 \/ i = 6
          THEN <<C7_Segment(vals[i], C7_Units[i])>>
          ELSE <<>>) \o C7_Segments(vals, i + 1)

\* the segments joined by ", "
RECURSIVE C7_Join(_)
C7_Join(segs) ==
    IF Len(segs) = 1 THEN segs[1]
    ELSE segs[1] \o ", " \o C7_Join(Tail(segs))

\* C7: the returned string is the ", "-joined list of the segments of the
\* units with a value > 0, in descending unit order, plus the seconds
\* segment always; format(0), format(1000) and format(61000) are as stated.
C7_FormatsSegmentsInOrder ==
    fpc = "done" =>
        /\ formatted = C7_Join(C7_Segments(C7_Values(ms), 1))
        /\ ms = Ms(0, 0) => formatted = "0 seconds"
        /\ ms = Ms(1, 0) => formatted = "1 second"
        /\ ms = Ms(61, 0) => formatted = "1 minute, 1 second"

\* C7 witness: format(61000) has been computed.
C7_Witness ==
    /\ fpc = "done"
    /\ ms = Ms(61, 0)
    /\ formatted = "1 minute, 1 second"

\* C8: the components are the successive quotients by 365 d, 28 d, 1 d, 1 h,
\* 1 min, 1 s, each taken from what the larger units left over: they add up
\* to the duration with a rest 0 <= r < 1000, and what each unit leaves is
\* non-negative and smaller than the unit.  1 year + 2 days + 3 seconds
\* gives years = 1, months = 0, days = 2, seconds = 3.
C8_SuccessiveDivision ==
    fpc = "done" =>
        LET afterYears == ms.s - parts.years * 31536000
            afterMonths == afterYears - parts.months * 2419200
            afterDays == afterMonths - parts.days * 86400
            afterHours == afterDays - parts.hours * 3600
            afterMinutes == afterHours - parts.minutes * 60
        IN  /\   parts.years * 31536000 + parts.months * 2419200
               + parts.days * 86400 + parts.hours * 3600
               + parts.minutes * 60 + parts.seconds = ms.s
            /\ parts.elapsed = ms.r
            /\ 0 <= parts.elapsed /\ parts.elapsed < 1000
            /\ parts.years >= 0
            /\ 0 <= afterYears /\ afterYears < 31536000
            /\ 0 <= afterMonths /\ afterMonths < 2419200
            /\ 0 <= afterDays /\ afterDays < 86400
            /\ 0 <= afterHours /\ afterHours < 3600
            /\ 0 <= afterMinutes /\ afterMinutes < 60
            /\ parts.seconds = afterMinutes
            /\ ms = Ms(31536000 + 2 * 86400 + 3, 0)
                   => /\ parts.years = 1 /\ parts.months = 0
                      /\ parts.days = 2 /\ parts.hours = 0
                      /\ parts.minutes = 0 /\ parts.seconds = 3

\* C8 witness: the breakdown of 1 year + 2 days + 3 seconds has been
\* computed.
C8_Witness ==
    /\ fpc = "done"
    /\ ms = Ms(31536000 + 2 * 86400 + 3, 0)
    /\ parts.years = 1
    /\ parts.days = 2
    /\ formatted = "1 year, 2 days, 3 seconds"

\* C16: every component is non-negative, months <= 13, days <= 27,
\* hours <= 23, minutes <= 59, seconds <= 59; a duration of 364 days has
\* 13 months.
C16_ComponentsBounded ==
    fpc = "done" =>
        /\ parts.years >= 0
        /\ 0 <= parts.months /\ parts.months <= 13
        /\ 0 <= parts.days /\ parts.days <= 27
        /\ 0 <= parts.hours /\ parts.hours <= 23
        /\ 0 <= parts.minutes /\ parts.minutes <= 59
        /\ 0 <= parts.seconds /\ parts.seconds <= 59
        /\ ms = Ms(364 * 86400, 0) => parts.months = 13

\* C16 witness: the breakdown of 364 days has been computed and has 13
\* months and no days.
C16_Witness ==
    /\ fpc = "done"
    /\ ms = Ms(364 * 86400, 0)
    /\ parts.years = 0
    /\ parts.months = 13
    /\ parts.days = 0

====
